---------------------------- MODULE Spec2Model ----------------------------
(***************************************************************************)
(* A model of scripts/iso3166.py: gen_cc() loads the ISO-3166 dataset,     *)
(* projects every record to (alpha-2, name), sorts the pairs by code and   *)
(* prints a Rust array literal.                                            *)
(*                                                                         *)
(* Python strings are sequences of one-character strings, so that the text *)
(* written to standard output is compared character by character.          *)
(***************************************************************************)
EXTENDS Integers, Sequences, FiniteSets, TLC

(***************************************************************************)
(* Bounds of the model.                                                    *)
(***************************************************************************)
\* longest dataset drawn from the whole record pool
MaxLen == 3
\* length of the one long dataset (a declared length of two digits)
LongLen == 10
\* number of invocations of gen_cc on the unchanged dataset
MaxRuns == 2

(***************************************************************************)
(* Characters and the literals of the source.                              *)
(***************************************************************************)
NL == "\n"
QUOTE == "\""
SP == " "

\* code points of the characters that occur in codes and names
Ord(c) ==
    CASE c = QUOTE -> 34
      [] c = "A" -> 65
      [] c = "D" -> 68
      [] c = "S" -> 83
      [] c = "U" -> 85
      [] c = "x" -> 120

\* "pub static COUNTRY_CODES: [(&'static str, &'static str); "
DeclHead ==
    <<"p", "u", "b", " ", "s", "t", "a", "t", "i", "c", " ", "C", "O", "U", "N",
      "T", "R", "Y", "_", "C", "O", "D", "E", "S", ":", " ", "[", "(", "&", "'",
      "s", "t", "a", "t", "i", "c", " ", "s", "t", "r", ",", " ", "&", "'", "s",
      "t", "a", "t", "i", "c", " ", "s", "t", "r", ")", ";", " ">>
\* "] = ["
DeclOpen == <<"]", " ", "=", " ", "[">>
\* "];"
DeclClose == <<"]", ";">>
\* "\n    "
LineStart == <<NL, SP, SP, SP, SP>>
\* the pieces of "(\"%s\", \"%s\"), "
EntryOpen == <<"(", QUOTE>>
EntryMid == <<QUOTE, ",", SP, QUOTE>>
EntryEnd == <<QUOTE, ")", ",", SP>>

(***************************************************************************)
(* The inputs: the file at ISO3166_DATA and the records it holds.          *)
(***************************************************************************)
Rec(c, n) == [k \in {"alpha-2", "name"} |-> IF k = "alpha-2" THEN c ELSE n]

\* well-formed records: a prefix code, a repeated code, a quote in a name,
\* and a record with a field besides alpha-2 and name
GoodRecords ==
    << Rec(<<"U", "S">>, <<"x">>),
       Rec(<<"A", "D">>, <<"x">>),
       Rec(<<"A", "D">>, <<QUOTE>>),
       Rec(<<"A">>, <<"x", "x">>),
       [k \in {"alpha-2", "name", "alpha-3"} |->
           IF k = "alpha-2" THEN <<"A", "D">>
           ELSE IF k = "name" THEN <<"x">> ELSE <<"A", "D", "D">>] >>

\* records that lack a required key
BadRecords ==
    { [k \in {"alpha-2"} |-> <<"U", "S">>],
      [k \in {"name"} |-> <<"x">>] }

Records == {GoodRecords[k] : k \in 1..Len(GoodRecords)} \cup BadRecords

LongData ==
    [k \in 1..LongLen |-> GoodRecords[((k * 2) % Len(GoodRecords)) + 1]]

Datasets ==
    UNION {[1..n -> Records] : n \in 0..MaxLen} \cup {LongData}

\* what open(), read() and json.loads() meet at ISO3166_DATA
FileStates == {"ok", "missing", "noperm", "undecodable", "malformed"}

VARIABLES
    file,      \* the state of the file at ISO3166_DATA
    dataset,   \* the list of records the file holds when it is valid JSON
    pc,        \* the position of gen_cc
    handle,    \* the file object of open(): "none", "open" or "closed"
    data,      \* local: the parsed dataset
    items,     \* local: the (code, name) pairs
    i,         \* local: the index of the render loop
    body,      \* local: the rendered entries
    code,      \* local: the rendered literal
    stdout,    \* what the current invocation has written to standard output
    err,       \* the exception that ended the invocation, or "none"
    run,       \* the number of the current invocation
    outputs    \* the standard output of every finished invocation

vars ==
    <<file, dataset, pc, handle, data, items, i, body, code, stdout, err,
      run, outputs>>

locals == <<data, items, i, body, code>>

(***************************************************************************)
(* The pure steps of gen_cc.                                               *)
(***************************************************************************)
Min(S) == CHOOSE m \in S : \A n \in S : m <= n

\* Python's < on str: the first differing code point decides, a proper
\* prefix is smaller
StrLess(a, b) ==
    LET n == IF Len(a) < Len(b) THEN Len(a) ELSE Len(b)
        diff == {k \in 1..n : a[k] # b[k]}
    IN  IF diff = {}
        THEN Len(a) < Len(b)
        ELSE Ord(a[Min(diff)]) < Ord(b[Min(diff)])

\* whether every record has both keys the lambda of line 16 reads
HasKeys(d) ==
    \A k \in 1..Len(d) : {"alpha-2", "name"} \subseteq DOMAIN d[k]

\* a projection that keeps only the first record of every code
ProjectDedup(d) ==
    LET First(k) == \A j \in 1..(k - 1) : d[j]["alpha-2"] # d[k]["alpha-2"]
        idx == SelectSeq([k \in 1..Len(d) |-> k], First)
    IN  [k \in 1..Len(idx) |-> <<d[idx[k]]["alpha-2"], d[idx[k]]["name"]>>]

\* list(map(lambda elem: (elem["alpha-2"], elem["name"]), data))
ProjectPairs(d) ==
    [k \in 1..Len(d) |-> <<d[k]["alpha-2"], d[k]["name"]>>]

\* the order of sorted() without a key: the name decides between equal codes
TupleLess(a, b) ==
    \/ StrLess(a[1], b[1])
    \/ a[1] = b[1] /\ StrLess(a[2], b[2])

\* the order of sorted(): the key of an item is item[0]
KeyLess(a, b) == StrLess(a[1], b[1])

\* x placed after every element that is not greater than it
Insert(t, x) ==
    LET after == {k \in 1..Len(t) : KeyLess(x, t[k])}
        at == IF after = {} THEN Len(t) + 1 ELSE Min(after)
    IN  SubSeq(t, 1, at - 1) \o <<x>> \o SubSeq(t, at, Len(t))

RECURSIVE Sorted(_)
\* sorted(items, key=lambda item: item[0]): a stable sort
Sorted(s) ==
    IF s = <<>>
    THEN <<>>
    ELSE Insert(Sorted(SubSeq(s, 1, Len(s) - 1)), s[Len(s)])

\* a loop that starts a line at every other entry
StartsLineEveryOther(k) == k % 2 = 0

\* the indices of the loop that start a line: i % 1 == 0
PerLine == 1
StartsLine(k) == k % PerLine = 0

\* a rendering that escapes the quotes of the name
Escaped(n) ==
    IF n = <<>> THEN <<>>
    ELSE IF \E k \in 1..Len(n) : n[k] = QUOTE
    THEN LET k == Min({j \in 1..Len(n) : n[j] = QUOTE})
         IN  SubSeq(n, 1, k - 1) \o <<"\\", QUOTE>> \o SubSeq(n, k + 1, Len(n))
    ELSE n
EntryEscaped(item) ==
    EntryOpen \o item[1] \o EntryMid \o Escaped(item[2]) \o EntryEnd

\* "(\"%s\", \"%s\"), " % item: %s of a str is the str itself
Entry(item) ==
    EntryOpen \o item[1] \o EntryMid \o item[2] \o EntryEnd

Digit(n) == <<"0", "1", "2", "3", "4", "5", "6", "7", "8", "9">>[n + 1]

RECURSIVE Decimal(_)
\* "%d" % n for n >= 0
Decimal(n) ==
    IF n < 10 THEN <<Digit(n)>> ELSE Decimal(n \div 10) \o <<Digit(n % 10)>>

\* a body left without its closing newline
CloseBodyNothing(b) == b

\* body += "\n"
CloseBody(b) == b \o <<NL>>

\* "\npub static COUNTRY_CODES: [(&'static str, &'static str); %d] = [%s];\n"
Format(n, b) ==
    <<NL>> \o DeclHead \o Decimal(n) \o DeclOpen \o b \o DeclClose \o <<NL>>

\* print(code, end="")
PrintedNoNewline(s) == s

\* print(code): the text and a newline
Printed(s) == s \o <<NL>>

(***************************************************************************)
(* The steps of gen_cc.                                                    *)
(***************************************************************************)
Raise(e) ==
    /\ pc' = "error"
    /\ err' = e

\* open(ISO3166_DATA, "r")
Open ==
    /\ pc = "start"
    /\ IF file = "missing"
       THEN Raise("FileNotFoundError") /\ UNCHANGED handle
       ELSE IF file = "noperm"
       THEN Raise("PermissionError") /\ UNCHANGED handle
       ELSE pc' = "read" /\ handle' = "open" /\ UNCHANGED err
    /\ UNCHANGED <<file, dataset, locals, stdout, run, outputs>>

\* .read(): afterwards nothing refers to the file object, which is never
\* closed by the code; an interpreter that counts references finalises it
\* at once, any other leaves it open until it collects it
Read ==
    /\ pc = "read"
    /\ handle' \in {"open", "closed"}
    /\ IF file = "undecodable"
       THEN Raise("UnicodeDecodeError")
       ELSE pc' = "parse" /\ UNCHANGED err
    /\ UNCHANGED <<file, dataset, locals, stdout, run, outputs>>

\* a parse that takes a malformed file for an empty list
ParseLenient ==
    /\ pc = "parse"
    /\ pc' = "project"
    /\ data' = dataset
    /\ UNCHANGED <<file, dataset, handle, items, i, body, code, stdout, err,
                   run, outputs>>

\* data = json.loads(...)
Parse ==
    /\ pc = "parse"
    /\ IF file = "malformed"
       THEN Raise("JSONDecodeError") /\ UNCHANGED data
       ELSE pc' = "project" /\ data' = dataset /\ UNCHANGED err
    /\ UNCHANGED <<file, dataset, handle, items, i, body, code, stdout, run,
                   outputs>>

\* a projection that skips the records without a key
ProjectSkipBad ==
    /\ pc = "project"
    /\ LET Good(r) == {"alpha-2", "name"} \subseteq DOMAIN r
       IN  items' = ProjectPairs(SelectSeq(data, Good))
    /\ pc' = "sort"
    /\ UNCHANGED <<file, dataset, handle, data, i, body, code, stdout, err,
                   run, outputs>>

\* items = list(map(...)): a record without a key raises KeyError
Project ==
    /\ pc = "project"
    /\ IF HasKeys(data)
       THEN pc' = "sort" /\ items' = ProjectPairs(data) /\ UNCHANGED err
       ELSE Raise("KeyError") /\ UNCHANGED items
    /\ UNCHANGED <<file, dataset, handle, data, i, body, code, stdout, run,
                   outputs>>

\* a body that is not emptied before the loop
SortKeepBody ==
    /\ pc = "sort"
    /\ items' = Sorted(items)
    /\ i' = 0
    /\ pc' = "render"
    /\ UNCHANGED <<file, dataset, handle, data, body, code, stdout, err, run,
                   outputs>>

\* items = sorted(...); body = ""; the loop starts at i = 0
Sort ==
    /\ pc = "sort"
    /\ items' = Sorted(items)
    /\ body' = <<>>
    /\ i' = 0
    /\ pc' = "render"
    /\ UNCHANGED <<file, dataset, handle, data, code, stdout, err, run,
                   outputs>>

\* one iteration of the loop
RenderStep ==
    /\ pc = "render"
    /\ i < Len(items)
    /\ body' = body \o (IF StartsLine(i) THEN LineStart ELSE <<>>)
                    \o Entry(items[i + 1])
    /\ i' = i + 1
    /\ UNCHANGED <<file, dataset, pc, handle, data, items, code, stdout, err,
                   run, outputs>>

\* after the loop: body += "\n"; code = "..." % (len(items), body)
RenderEnd ==
    /\ pc = "render"
    /\ i = Len(items)
    /\ body' = CloseBody(body)
    /\ code' = Format(Len(items), CloseBody(body))
    /\ pc' = "print"
    /\ UNCHANGED <<file, dataset, handle, data, items, i, stdout, err, run,
                   outputs>>

\* print(code)
Emit ==
    /\ pc = "print"
    /\ stdout' = stdout \o Printed(code)
    /\ pc' = "done"
    /\ UNCHANGED <<file, dataset, handle, locals, err, run, outputs>>

\* the interpreter finalises the unreferenced file object
Collect ==
    /\ handle = "open"
    /\ pc \notin {"start", "read"}
    /\ handle' = "closed"
    /\ UNCHANGED <<file, dataset, pc, locals, stdout, err, run, outputs>>

\* main() returns or the exception leaves it: the process ends
Exit ==
    /\ pc \in {"done", "error"}
    /\ pc' = "exited"
    /\ handle' = IF handle = "open" THEN "closed" ELSE handle
    /\ outputs' = Append(outputs, stdout)
    /\ UNCHANGED <<file, dataset, locals, stdout, err, run>>

\* the script is run again on the unchanged file.  The locals of a new
\* frame are unbound: the model leaves the old values in place, so that
\* only the assignments of gen_cc make them fresh
Invoke ==
    /\ pc = "exited"
    /\ run < MaxRuns
    /\ run' = run + 1
    /\ pc' = "start"
    /\ handle' = "none"
    /\ stdout' = <<>>
    /\ err' = "none"
    /\ UNCHANGED <<file, dataset, locals, outputs>>

Init ==
    /\ file \in FileStates
    /\ dataset \in (IF file = "ok" THEN Datasets ELSE {<<>>})
    /\ pc = "start"
    /\ handle = "none"
    /\ data = <<>>
    /\ items = <<>>
    /\ i = 0
    /\ body = <<>>
    /\ code = <<>>
    /\ stdout = <<>>
    /\ err = "none"
    /\ run = 1
    /\ outputs = <<>>

Next ==
    \/ Open
    \/ Read
    \/ Parse
    \/ Project
    \/ Sort
    \/ RenderStep
    \/ RenderEnd
    \/ Emit
    \/ Collect
    \/ Exit
    \/ Invoke

Spec == Init /\ [][Next]_vars


(***************************************************************************)
(* Reading the output back: the lines of a text, the declared length of    *)
(* the declaration line and the code and name of an entry line.            *)
(***************************************************************************)
RECURSIVE Lines(_)
\* the pieces of s between its newlines
Lines(s) ==
    LET nls == {k \in 1..Len(s) : s[k] = NL}
    IN  IF nls = {}
        THEN <<s>>
        ELSE <<SubSeq(s, 1, Min(nls) - 1)>>
                 \o Lines(SubSeq(s, Min(nls) + 1, Len(s)))

IsPrefix(p, s) == Len(p) <= Len(s) /\ SubSeq(s, 1, Len(p)) = p
IsSuffix(p, s) ==
    Len(p) <= Len(s) /\ SubSeq(s, Len(s) - Len(p) + 1, Len(s)) = p

DigitValue(c) ==
    CHOOSE v \in 0..9 : Digit(v) = c

IsNumeral(s) ==
    /\ s # <<>>
    /\ \A k \in 1..Len(s) : \E v \in 0..9 : Digit(v) = s[k]
    /\ (Len(s) > 1 => s[1] # "0")

RECURSIVE NumeralValue(_)
NumeralValue(s) ==
    IF s = <<>>
    THEN 0
    ELSE 10 * NumeralValue(SubSeq(s, 1, Len(s) - 1)) + DigitValue(s[Len(s)])

\* a line "pub static COUNTRY_CODES: [(&'static str, &'static str); <N>] = ["
IsDeclLine(l) ==
    /\ IsPrefix(DeclHead, l)
    /\ IsSuffix(DeclOpen, l)
    /\ Len(l) > Len(DeclHead) + Len(DeclOpen)
    /\ IsNumeral(SubSeq(l, Len(DeclHead) + 1, Len(l) - Len(DeclOpen)))

DeclaredLength(l) ==
    NumeralValue(SubSeq(l, Len(DeclHead) + 1, Len(l) - Len(DeclOpen)))

Indent == <<SP, SP, SP, SP>>

\* a line of four spaces and ("<code>", "<name>"), with no quote in <code>
CodeEnd(l) ==
    Min({k \in 7..Len(l) : l[k] = QUOTE})

IsEntryLine(l) ==
    /\ IsPrefix(Indent \o EntryOpen, l)
    /\ IsSuffix(EntryEnd, l)
    /\ \E k \in 7..Len(l) : l[k] = QUOTE
    /\ CodeEnd(l) + Len(EntryMid) + Len(EntryEnd) - 1 <= Len(l)
    /\ SubSeq(l, CodeEnd(l), CodeEnd(l) + Len(EntryMid) - 1) = EntryMid

\* the pair an entry line shows
LinePair(l) ==
    << SubSeq(l, 7, CodeEnd(l) - 1),
       SubSeq(l, CodeEnd(l) + Len(EntryMid), Len(l) - Len(EntryEnd)) >>

\* the pairs shown by the entry lines of a text, in order
EntryLines(s) ==
    SelectSeq(Lines(s), IsEntryLine)

ShownPairs(s) ==
    [k \in 1..Len(EntryLines(s)) |-> LinePair(EntryLines(s)[k])]

\* the (alpha-2, name) pairs of the input, in input order
InputPairs ==
    [k \in 1..Len(dataset) |-> <<dataset[k]["alpha-2"], dataset[k]["name"]>>]

ValidDataset ==
    /\ file = "ok"
    /\ \A k \in 1..Len(dataset) :
          {"alpha-2", "name"} \subseteq DOMAIN dataset[k]

Count(s, x) == Cardinality({k \in 1..Len(s) : s[k] = x})

WithCode(s, c) ==
    LET Has(p) == p[1] = c IN SelectSeq(s, Has)

\* the text the output shows between "= [" and "];"
BodyShown(s) ==
    SubSeq(s, 1 + Len(Lines(s)[2]) + 1, Len(s) - Len(DeclClose) - 2)

LoadErrors ==
    {"FileNotFoundError", "PermissionError", "UnicodeDecodeError",
     "JSONDecodeError"}

AfterLoad == {"project", "sort", "render", "print", "done"}

(***************************************************************************)
(* The claims.                                                             *)
(***************************************************************************)

\* C1: for a valid dataset the output holds exactly one declaration line,
\* and its declared length and the number of entry lines both equal the
\* number of input records; repeated codes are kept.
C1_CardinalityPreserved ==
    (pc = "done" /\ ValidDataset) =>
        LET L == Lines(stdout)
            decls == {k \in 1..Len(L) : IsDeclLine(L[k])}
        IN  /\ Cardinality(decls) = 1
            /\ \A k \in decls : DeclaredLength(L[k]) = Len(dataset)
            /\ Len(EntryLines(stdout)) = Len(dataset)

C1_Witness ==
    /\ pc = "done"
    /\ Len(dataset) = 3
    /\ dataset[1]["alpha-2"] = dataset[3]["alpha-2"]
    /\ Len(EntryLines(stdout)) = 3

\* C2: the entries of the output are in ascending order of code, and the
\* entries of one code are in the order their records have in the input.
C2_SortedStable ==
    (pc = "done" /\ ValidDataset) =>
        LET P == ShownPairs(stdout)
            codes == {P[k][1] : k \in 1..Len(P)}
                         \cup {InputPairs[k][1] : k \in 1..Len(InputPairs)}
        IN  /\ \A j, k \in 1..Len(P) : j < k => ~StrLess(P[k][1], P[j][1])
            /\ \A c \in codes : WithCode(P, c) = WithCode(InputPairs, c)

C2_Witness ==
    /\ pc = "done"
    /\ Len(dataset) = 3
    /\ InputPairs[1][1] = <<"U", "S">>
    /\ InputPairs[2] = <<(<<"A", "D">>), (<<"x">>)>>
    /\ InputPairs[3] = <<(<<"A", "D">>), (<<QUOTE>>)>>
    /\ ShownPairs(stdout) = <<InputPairs[2], InputPairs[3], InputPairs[1]>>

\* C3: the pairs the output shows are, with their multiplicities, the
\* (alpha-2, name) pairs of the input, character for character.
C3_SamePairs ==
    (pc = "done" /\ ValidDataset) =>
        LET P == ShownPairs(stdout)
            all == {P[k] : k \in 1..Len(P)}
                       \cup {InputPairs[k] : k \in 1..Len(InputPairs)}
        IN  \A p \in all : Count(P, p) = Count(InputPairs, p)

C3_Witness ==
    /\ pc = "done"
    /\ \E k \in 1..Len(dataset) : dataset[k]["name"] = <<QUOTE>>
    /\ \E k \in 1..Len(dataset) : "alpha-3" \in DOMAIN dataset[k]
    /\ \E k \in 1..Len(ShownPairs(stdout)) :
          ShownPairs(stdout)[k][2] = <<QUOTE>>

\* C4: when a record lacks alpha-2 or name, gen_cc ends with KeyError before
\* the sort and nothing is ever written to standard output.
C4_SchemaErrorNoOutput ==
    (file = "ok" /\ ~HasKeys(dataset)) =>
        /\ stdout = <<>>
        /\ pc \notin {"sort", "render", "print", "done"}
        /\ (pc = "error" => err = "KeyError")
        /\ \A k \in 1..Len(outputs) : outputs[k] = <<>>

C4_Witness ==
    /\ pc = "error"
    /\ err = "KeyError"
    /\ Len(dataset) = 3
    /\ HasKeys(SubSeq(dataset, 1, 2))
    /\ stdout = <<>>

\* C5: when the file is missing, unreadable or not valid JSON, gen_cc ends
\* with a load error before project, sort, render and emit, and nothing is
\* written to standard output.
C5_LoadErrorNoOutput ==
    (file # "ok") =>
        /\ stdout = <<>>
        /\ pc \notin AfterLoad
        /\ (pc = "error" => err \in LoadErrors)
        /\ \A k \in 1..Len(outputs) : outputs[k] = <<>>

C5_Witness ==
    /\ pc = "error"
    /\ file = "malformed"
    /\ err = "JSONDecodeError"
    /\ stdout = <<>>

\* C6, as claimed: for an empty dataset the declared length is 0 and nothing
\* stands between the opening and the closing bracket.
C6_EmptyBodyBetweenBrackets ==
    (pc = "done" /\ dataset = <<>>) =>
        /\ DeclaredLength(Lines(stdout)[2]) = 0
        /\ BodyShown(stdout) = <<>>

\* C6, amended: for an empty dataset the declared length is 0 and a single
\* newline, and no entry, stands between the brackets.
C6_EmptyDatasetNewlineBody ==
    (pc = "done" /\ dataset = <<>>) =>
        /\ IsDeclLine(Lines(stdout)[2])
        /\ DeclaredLength(Lines(stdout)[2]) = 0
        /\ BodyShown(stdout) = <<NL>>
        /\ EntryLines(stdout) = <<>>

C6_Witness ==
    /\ pc = "done"
    /\ file = "ok"
    /\ dataset = <<>>
    /\ body = <<NL>>

\* C7: the output is a blank line, the declaration line ending in "[", the
\* indented body lines, the line "];" and a blank line, and ends with a
\* newline; <N> is the count of pairs in decimal.
C7_OutputShape ==
    (pc = "done") =>
        LET L == Lines(stdout)
            n == Len(dataset)
        IN  /\ Len(L) = n + 5
            /\ L[1] = <<>>
            /\ IsDeclLine(L[2])
            /\ DeclaredLength(L[2]) = n
            /\ \A k \in 3..(n + 2) : IsPrefix(Indent, L[k])
            /\ L[n + 3] = DeclClose
            /\ L[n + 4] = <<>>
            /\ L[n + 5] = <<>>
            /\ stdout[Len(stdout)] = NL

C7_Witness ==
    /\ pc = "done"
    /\ Len(dataset) >= 10
    /\ Len(Lines(stdout)[2]) = Len(DeclHead) + 2 + Len(DeclOpen)

\* C8: every invocation on the unchanged dataset writes the same text.
C8_Deterministic ==
    /\ \A k \in 1..Len(outputs) : outputs[k] = outputs[1]
    /\ (pc \in {"done", "error"} /\ outputs # <<>>) => stdout = outputs[1]

C8_Witness ==
    /\ pc = "done"
    /\ run = 2
    /\ Len(dataset) >= 2
    /\ outputs # <<>>
    /\ stdout = outputs[1]
    /\ stdout # <<>>

\* C9: in the render loop, after i iterations the body is i lines, each a
\* newline, four spaces and one entry followed by ", "; i % 1 = 0 holds at
\* every index.
C9_OneEntryPerLine ==
    (pc = "render") =>
        LET L == Lines(body)
        IN  /\ Len(L) = i + 1
            /\ L[1] = <<>>
            /\ \A k \in 1..i :
                  /\ IsEntryLine(L[k + 1])
                  /\ LinePair(L[k + 1]) = items[k]
                  /\ IsSuffix(<<",", SP>>, L[k + 1])
            /\ \A k \in 0..(Len(items) - 1) : k % 1 = 0 /\ StartsLine(k)

C9_Witness ==
    /\ pc = "render"
    /\ i = Len(items)
    /\ i >= 3
    /\ Len(Lines(body)) = i + 1

\* C10, as claimed: once the load step has ended, normally or by an error,
\* the handle on the dataset file is no longer held.
C10_HandleReleasedAfterLoad ==
    (pc \in AfterLoad \cup {"error"}) => handle # "open"

=============================================================================
